---- MODULE Spec2Model ----
(***************************************************************************)
(* A model of bcc-exporter (src/main.go, the perf + pprof version of the  *)
(* file, lines 1-286): one profiling session per inbound HTTP request.    *)
(* A session parses its query parameters, optionally answers with mock    *)
(* data, checks the target process and the external tools, and then runs  *)
(* either the two-stage perf/pprof pipeline inside a temporary directory  *)
(* or the single profile-bpfcc command.                                    *)
(*                                                                         *)
(* Strings are TLA+ strings, so substring tests, integer parsing and      *)
(* formatting are computed character by character as the Go library does. *)
(* Every call a session makes to a collaborator (process table, search    *)
(* path, filesystem, subprocess layer, response writer, logger) is        *)
(* appended to calls[s] in program order.                                 *)
(***************************************************************************)
EXTENDS Integers, Sequences, FiniteSets, TLC

(***************************************************************************)
(* Bounds of the model.                                                    *)
(***************************************************************************)
NumSessions == 2    \* sessions (inbound requests) the model has room for
MaxDirs == 2        \* distinct names os.MkdirTemp can draw from

(***************************************************************************)
(* Program constants.                                                      *)
(***************************************************************************)
MaxSeconds == 300
StatusOK == 200
StatusBadRequest == 400
StatusUnauthorized == 401
StatusForbidden == 403
StatusInternalServerError == 500

Sessions == 1..NumSessions

(***************************************************************************)
(* Strings.                                                                *)
(***************************************************************************)
Char(s, i) == SubSeq(s, i, i)

Digits == <<"0", "1", "2", "3", "4", "5", "6", "7", "8", "9">>

IsDigit(c) == \E d \in 1..10 : Digits[d] = c

DigitVal(c) == (CHOOSE d \in 1..10 : Digits[d] = c) - 1

\* strings.Contains(s, substr)
Contains(s, substr) ==
    \/ Len(substr) = 0
    \/ \E i \in 1..(Len(s) - Len(substr) + 1) :
          SubSeq(s, i, i + Len(substr) - 1) = substr

\* strings.HasPrefix(s, prefix)
HasPrefix(s, prefix) ==
    /\ Len(s) >= Len(prefix)
    /\ SubSeq(s, 1, Len(prefix)) = prefix

RECURSIVE ParseDigits(_, _)
\* The digit loop of strconv.Atoi: n = n*10 + ch for every character, a
\* syntax error at the first character that is not a decimal digit.
ParseDigits(s, n) ==
    IF Len(s) = 0 THEN [err |-> FALSE, val |-> n]
    ELSE IF ~IsDigit(Char(s, 1)) THEN [err |-> TRUE, val |-> 0]
    ELSE ParseDigits(SubSeq(s, 2, Len(s)), n * 10 + DigitVal(Char(s, 1)))

\* strconv.Atoi for strings short enough for its fast path: an optional
\* leading sign, then at least one digit, then nothing else.
Atoi(s) ==
    IF Len(s) = 0 THEN [err |-> TRUE, val |-> 0]
    ELSE LET signed == Char(s, 1) \in {"-", "+"}
             body == IF signed THEN SubSeq(s, 2, Len(s)) ELSE s
             r == ParseDigits(body, 0)
         IN  IF Len(body) = 0 \/ r.err THEN [err |-> TRUE, val |-> 0]
             ELSE IF Char(s, 1) = "-" THEN [err |-> FALSE, val |-> 0 - r.val]
             ELSE r

RECURSIVE FormatNat(_)
FormatNat(n) ==
    IF n < 10 THEN Digits[n + 1]
    ELSE FormatNat(n \div 10) \o Digits[(n % 10) + 1]

\* fmt.Sprintf("%d", n)
Itoa(n) == IF n < 0 THEN "-" \o FormatNat(0 - n) ELSE FormatNat(n)

\* filepath.Join(dir, name) for a clean dir and a plain file name
Join(dir, name) == dir \o "/" \o name

(***************************************************************************)
(* The environment: what the operating system can answer.                  *)
(***************************************************************************)
\* the live processes: the entries of /proc that are process ids
ProcTable == {"1", "42"}

\* results of os.Stat("/proc/<pid>")
StatResults(pid) ==
    IF pid \in ProcTable THEN {"ok", "permission denied"}
    ELSE {"no such file or directory"}

Tools == {"perf", "pprof"}

\* names os.MkdirTemp("", "bcc-exporter-") can create
DirNames == {"/tmp/bcc-exporter-" \o Itoa(i) : i \in 1..MaxDirs}

NoDir == ""

\* what a request's query string can carry
PidInputs == {"", "abc", "0", "1", "42", "-5", "999999"}
SecondsInputs ==
    {"", "abc", "0", "1", "5", "+7", "007", "300", "301", "500", "-1", "1.5"}
TestInputs == {"", "true", "1"}
Formats == {"pprof", "folded"}

Requests ==
    [pid : PidInputs, seconds : SecondsInputs, test : TestInputs,
     format : Formats]

\* what r.BasicAuth() can return: ok is false when the request carries no
\* (well-formed) basic credentials
NoCredentials == [ok |-> FALSE, user |-> "", pass |-> ""]

CredentialInputs ==
    {NoCredentials,
     [ok |-> TRUE, user |-> "admin", pass |-> "secret"],
     [ok |-> TRUE, user |-> "admin", pass |-> "wrong"],
     [ok |-> TRUE, user |-> "root", pass |-> "secret"]}

\* the -password flag: empty for none
Passwords == {"", "secret"}

NoRequest ==
    [pid |-> "", seconds |-> "", test |-> "", format |-> "",
     auth |-> NoCredentials]

(***************************************************************************)
(* The response writer (net/http).                                         *)
(***************************************************************************)
HeaderNames ==
    {"Content-Type", "Content-Disposition", "X-Content-Type-Options",
     "WWW-Authenticate"}

\* a response nothing has been written to: status 0 is "header not sent"
NewResponse ==
    [status |-> 0, header |-> [h \in HeaderNames |-> ""], body |-> <<>>]

\* w.Header().Set(k, v): the header map is frozen once the status is sent
SetHeader(r, k, v) ==
    IF r.status # 0 THEN r ELSE [r EXCEPT !.header[k] = v]

\* w.WriteHeader(code): only the first call counts
WriteHeader(r, code) ==
    IF r.status # 0 THEN r ELSE [r EXCEPT !.status = code]

\* w.Write(data): sends the header with 200 if it has not been sent; src
\* names the call site the bytes come from
Write(r, src, data) ==
    [WriteHeader(r, StatusOK) EXCEPT
        !.body = Append(@, [src |-> src, data |-> data])]

\* http.Error(w, msg, code)
Error(r, msg, code) ==
    Write(WriteHeader(SetHeader(SetHeader(r,
              "Content-Type", "text/plain; charset=utf-8"),
              "X-Content-Type-Options", "nosniff"), code),
          "error", msg \o "\n")

RECURSIVE BodyBytes(_)
\* the bytes of a body, in the order they were written
BodyBytes(body) ==
    IF Len(body) = 0 THEN ""
    ELSE body[1].data \o BodyBytes(Tail(body))

BodySources(body) == {body[i].src : i \in 1..Len(body)}

(***************************************************************************)
(* Pure functions of main.go.                                              *)
(***************************************************************************)
MockStacks ==
    "main;runtime.main;main.main;net/http.ListenAndServe;net/http.(*Server).Serve 10\n"
    \o "main;runtime.main;main.main;net/http.ListenAndServe;net/http.(*Server).Serve;net/http.(*conn).serve 25\n"
    \o "main;runtime.main;main.main;net/http.ListenAndServe;net/http.(*Server).Serve;net/http.(*conn).serve;net/http.serverHandler.ServeHTTP 15\n"
    \o "redis-server;main;aeMain;aeProcessEvents;aeApiPoll 50\n"
    \o "redis-server;main;aeMain;aeProcessEvents;processCommand;lookupCommand 30\n"
    \o "redis-server;main;aeMain;aeProcessEvents;processCommand;call 40\n"

\* variant: the target is left out of the header line
generateMockProfile_NoPid(pid, duration) ==
    "# Mock profile data, duration " \o Itoa(duration) \o " seconds\n"
    \o MockStacks

generateMockProfile(pid, duration) ==
    "# Mock profile data for PID " \o pid \o ", duration " \o Itoa(duration)
    \o " seconds\n" \o MockStacks

\* variant: the not-exist test never matches, so a missing entry is
\* reported as inaccessible
validatePID_NoNotExist(pid, statResult) ==
    IF Atoi(pid).err THEN "invalid PID format: " \o pid
    ELSE IF statResult # "ok"
         THEN "cannot access process " \o pid \o ": stat /proc/" \o pid
              \o ": " \o statResult
    ELSE ""

\* variant: the check is not made
validatePID_Skipped(pid, statResult) == ""

\* variant: only the format of the identifier is checked
validatePID_FormatOnly(pid, statResult) ==
    IF Atoi(pid).err THEN "invalid PID format: " \o pid ELSE ""

\* validatePID: statResult is what os.Stat("/proc/<pid>") answers; it is
\* consulted only when the identifier parses.  The result is the error
\* message, "" for nil.
validatePID(pid, statResult) ==
    IF Atoi(pid).err THEN "invalid PID format: " \o pid
    ELSE IF statResult = "no such file or directory"
         THEN "process with PID " \o pid \o " does not exist"
    ELSE IF statResult # "ok"
         THEN "cannot access process " \o pid \o ": stat /proc/" \o pid
              \o ": " \o statResult
    ELSE ""

\* the collaborator calls validatePID makes
validatePIDCalls(pid) ==
    IF Atoi(pid).err THEN <<>>
    ELSE <<[op |-> "os.Stat", args |-> <<"/proc/" \o pid>>]>>

(***************************************************************************)
(* State.                                                                  *)
(***************************************************************************)
VARIABLES
    active,     \* the sessions this run of the server receives
    installed,  \* the tools exec.LookPath can resolve
    password,   \* the -password flag
    scope,      \* how much of the input space this run draws from
    dirs,       \* the directories that exist under the temp root
    files,      \* path -> content, for every file that exists
    pc,         \* where each session's handler is
    req,        \* the query parameters of each session's request
    dur,        \* runProfile's dur / the pipelines' duration
    resp,       \* each session's response as sent so far
    tempDir,    \* runPerfProfile's tempDir
    defers,     \* the deferred calls of runPerfProfile, last one first
    cmd,        \* the tool whose exit the session waits for, "" for none
    pprofFile,  \* the open handle on the converted profile
    calls       \* the collaborator calls of each session, in order

vars ==
    <<active, installed, password, scope, dirs, files, pc, req, dur, resp, tempDir, defers,
      cmd, pprofFile, calls>>

env == <<active, installed, password, scope>>

NoCmd == ""

\* a file handle: the bytes of the file it is open on and the read offset
NoFile == [open |-> FALSE, data |-> "", off |-> 0]

Call(op, args) == [op |-> op, args |-> args]

\* variant: the call is not deferred at all
Defer_Dropped(stack, call) == stack

\* variant: deferred calls run in registration order
Defer_Fifo(stack, call) == Append(stack, call)

\* a defer statement: the call goes on top of the function's deferred calls
Defer(stack, call) == <<call>> \o stack

InitCommon ==
    /\ dirs = {}
    /\ files = [p \in {} |-> ""]
    /\ pc = [s \in Sessions |-> "idle"]
    /\ req = [s \in Sessions |-> NoRequest]
    /\ dur = [s \in Sessions |-> 0]
    /\ resp = [s \in Sessions |-> NewResponse]
    /\ tempDir = [s \in Sessions |-> NoDir]
    /\ defers = [s \in Sessions |-> <<>>]
    /\ cmd = [s \in Sessions |-> NoCmd]
    /\ pprofFile = [s \in Sessions |-> NoFile]
    /\ calls = [s \in Sessions |-> <<>>]

\* one request at a time, drawn from every input
Init ==
    /\ active = {1}
    /\ scope = "all"
    /\ installed \in SUBSET Tools
    /\ password \in Passwords
    /\ InitCommon

\* the sessions that run side by side
ConcurrentSessions == {1, 2}

\* two requests in flight at once on a host with both tools and a password
\* set, drawn from a part of the inputs
InitConcurrent ==
    /\ active = ConcurrentSessions
    /\ scope = "some"
    /\ installed = Tools
    /\ password = "secret"
    /\ InitCommon

(***************************************************************************)
(* runProfile.                                                             *)
(***************************************************************************)
\* the requests a run draws from: all of them, or test-mode requests of a
\* few targets and durations, one real request per format and one request
\* per way of failing validation
RequestsNow ==
    IF scope = "all" THEN Requests
    ELSE {r \in Requests :
             \/ /\ r.test = "true"
                /\ r.pid \in {"abc", "1", "42"}
                /\ r.seconds \in {"5", "+7", "007"}
             \/ /\ r.test = ""
                /\ r.pid = "1"
                /\ r.seconds = "5"
             \/ /\ r.test = ""
                /\ r.format = "pprof"
                /\ r.pid = "1"
                /\ r.seconds \in {"", "abc", "301"}}

\* the credentials a run draws from; without a password no wrapper reads
\* them
CredentialsNow ==
    IF password = "" THEN {NoCredentials}
    ELSE IF scope = "all" THEN CredentialInputs
    ELSE {NoCredentials, [ok |-> TRUE, user |-> "admin", pass |-> "secret"]}

\* lines 27-33 and 56-62: a request arrives at one of the two routes; the
\* route's handler is runProfile, behind basicAuth when a password is set
Receive(s) ==
    /\ s \in active
    /\ pc[s] = "idle"
    /\ \E r \in RequestsNow, a \in CredentialsNow :
          req' = [req EXCEPT ![s] =
                     [pid |-> r.pid, seconds |-> r.seconds, test |-> r.test,
                      format |-> r.format, auth |-> a]]
    /\ IF password # ""
       THEN /\ pc' = [pc EXCEPT ![s] = "basicAuth"]
            /\ calls' = calls
       ELSE /\ pc' = [pc EXCEPT ![s] = "runProfile"]
            /\ calls' = [calls EXCEPT ![s] =
                   Append(@, Call("runProfile", <<req'[s].format>>))]
    /\ UNCHANGED <<env, dirs, files, dur, resp, tempDir, defers, cmd,
                   pprofFile>>

\* variant: the user name is not compared
authorized_AnyUser(auth, pw) == auth.ok /\ auth.pass = pw

\* line 47, negated: the credentials basicAuth lets through
authorized(auth, pw) == auth.ok /\ auth.user = "admin" /\ auth.pass = pw

\* lines 45-53: the wrapper answers 401 or calls the wrapped handler
basicAuth(s) ==
    /\ pc[s] = "basicAuth"
    /\ IF ~authorized(req[s].auth, password)
       THEN /\ resp' = [resp EXCEPT ![s] =
                   Error(SetHeader(@, "WWW-Authenticate",
                                   "Basic realm=\"bcc-exporter\""),
                         "Unauthorized", StatusUnauthorized)]
            /\ calls' = [calls EXCEPT ![s] =
                   Append(@, Call("http.Error", <<"401">>))]
            /\ pc' = [pc EXCEPT ![s] = "return"]
       ELSE /\ pc' = [pc EXCEPT ![s] = "runProfile"]
            /\ calls' = [calls EXCEPT ![s] =
                   Append(@, Call("runProfile", <<req[s].format>>))]
            /\ resp' = resp
    /\ UNCHANGED <<env, dirs, files, req, dur, tempDir, defers, cmd,
                   pprofFile>>

\* variant: the flag compared with the wrong literal
testMode_WrongLiteral(r) == r.test = "1"

\* line 67
testMode(r) == r.test = "true"

\* variant: both parameters must be absent to be rejected
missingParams_Both(pid, seconds) == pid = "" /\ seconds = ""

\* line 69
missingParams(pid, seconds) == pid = "" \/ seconds = ""

\* variant: the lower bound off by one
invalidSeconds_OffByOne(a) == a.err \/ a.val < 0 \/ a.val > MaxSeconds

\* line 75: a is the result of strconv.Atoi(seconds)
invalidSeconds(a) == a.err \/ a.val <= 0 \/ a.val > MaxSeconds

\* lines 65-78: required parameters, then the duration
runProfile_Params(s) ==
    /\ pc[s] = "runProfile"
    /\ LET pid == req[s].pid
           seconds == req[s].seconds
           a == Atoi(seconds)
       IN  IF missingParams(pid, seconds)
           THEN /\ resp' = [resp EXCEPT ![s] =
                        Error(@, "Missing pid or seconds", StatusBadRequest)]
                /\ calls' = [calls EXCEPT ![s] =
                        Append(@, Call("http.Error", <<"400">>))]
                /\ pc' = [pc EXCEPT ![s] = "return"]
                /\ dur' = dur
           ELSE IF invalidSeconds(a)
           THEN /\ resp' = [resp EXCEPT ![s] =
                        Error(@, "Invalid seconds", StatusBadRequest)]
                /\ calls' = [calls EXCEPT ![s] =
                        Append(@, Call("http.Error", <<"400">>))]
                /\ pc' = [pc EXCEPT ![s] = "return"]
                /\ dur' = dur
           ELSE /\ dur' = [dur EXCEPT ![s] = a.val]
                /\ pc' = [pc EXCEPT ![s] = "validated"]
                /\ UNCHANGED <<resp, calls>>
    /\ UNCHANGED <<env, dirs, files, req, tempDir, defers, cmd, pprofFile>>

\* lines 81-90: test mode answers with mock data
runProfile_TestMode(s) ==
    /\ pc[s] = "validated"
    /\ testMode(req[s])
    /\ LET mockData == generateMockProfile(req[s].pid, dur[s])
           ctype == IF req[s].format = "pprof"
                    THEN "application/octet-stream" ELSE "text/plain"
       IN  /\ resp' = [resp EXCEPT ![s] =
                   Write(SetHeader(@, "Content-Type", ctype), "mock", mockData)]
           /\ calls' = [calls EXCEPT ![s] =
                   Append(@, Call("w.Write", <<"mock">>))]
    /\ pc' = [pc EXCEPT ![s] = "return"]
    /\ UNCHANGED <<env, dirs, files, req, dur, tempDir, defers, cmd,
                   pprofFile>>

\* variant: every format goes through perf and pprof
pipelineOf_AlwaysPerf(format) == "runPerfProfile"

\* lines 98-104: the pipeline a format is served by
pipelineOf(format) ==
    IF format = "pprof" THEN "runPerfProfile" ELSE "runBCCProfile"

\* lines 93-104: the process must exist; then the pipeline of the format
runProfile_ValidatePID(s) ==
    /\ pc[s] = "validated"
    /\ ~testMode(req[s])
    /\ \E st \in StatResults(req[s].pid) :
          LET err == validatePID(req[s].pid, st)
              looked == validatePIDCalls(req[s].pid)
          IN  IF err # ""
              THEN /\ resp' = [resp EXCEPT ![s] =
                          Error(@, "Invalid PID: " \o err, StatusBadRequest)]
                   /\ calls' = [calls EXCEPT ![s] =
                          @ \o looked \o <<Call("http.Error", <<"400">>)>>]
                   /\ pc' = [pc EXCEPT ![s] = "return"]
              ELSE /\ calls' = [calls EXCEPT ![s] = @ \o looked]
                   /\ pc' = [pc EXCEPT ![s] = pipelineOf(req[s].format)]
                   /\ resp' = resp
    /\ UNCHANGED <<env, dirs, files, req, dur, tempDir, defers, cmd,
                   pprofFile>>

(***************************************************************************)
(* runPerfProfile.                                                         *)
(***************************************************************************)
\* variant: pprof is not looked up
checkRequiredTools_PerfOnly(inst) ==
    IF "perf" \notin inst
    THEN "perf tool not found: exec: \"perf\": executable file not found in $PATH"
         \o ". Install with: sudo apt-get install linux-perf"
    ELSE ""

\* checkRequiredTools: perf first, pprof only when perf resolves.  The
\* result is the error message, "" for nil.
checkRequiredTools(inst) ==
    IF "perf" \notin inst
    THEN "perf tool not found: exec: \"perf\": executable file not found in $PATH"
         \o ". Install with: sudo apt-get install linux-perf"
    ELSE IF "pprof" \notin inst
    THEN "pprof tool not found: exec: \"pprof\": executable file not found in $PATH"
         \o ". Install with: go install github.com/google/pprof@latest"
    ELSE ""

\* the collaborator calls checkRequiredTools makes
checkRequiredToolsCalls(inst) ==
    IF "perf" \notin inst
    THEN <<Call("exec.LookPath", <<"perf">>)>>
    ELSE <<Call("exec.LookPath", <<"perf">>), Call("exec.LookPath", <<"pprof">>)>>

\* variant: a failed tool or directory creation is tried again
Fail_Retry(s, msg, code) ==
    /\ resp' = resp
    /\ pc' = [pc EXCEPT ![s] =
           IF @ = "perfWait" THEN "perfRecord"
           ELSE IF @ = "pprofWait" THEN "pprofConvert"
           ELSE IF @ = "mkdirTemp" THEN "mkdirTemp"
           ELSE "return"]

\* a handler's early exit with http.Error
Fail(s, msg, code) ==
    /\ resp' = [resp EXCEPT ![s] = Error(@, msg, code)]
    /\ pc' = [pc EXCEPT ![s] = "return"]

\* lines 143-146
runPerfProfile_CheckTools(s) ==
    /\ pc[s] = "runPerfProfile"
    /\ LET err == checkRequiredTools(installed)
       IN  IF err # ""
           THEN /\ Fail(s, "Required tools not available: " \o err,
                        StatusInternalServerError)
                /\ calls' = [calls EXCEPT ![s] =
                       @ \o checkRequiredToolsCalls(installed)
                         \o <<Call("http.Error", <<"500">>)>>]
           ELSE /\ calls' = [calls EXCEPT ![s] =
                       @ \o checkRequiredToolsCalls(installed)]
                /\ pc' = [pc EXCEPT ![s] = "mkdirTemp"]
                /\ resp' = resp
    /\ UNCHANGED <<env, dirs, files, req, dur, tempDir, defers, cmd,
                   pprofFile>>

\* variant: the name is drawn without looking at what exists
FreshNames_Any(existing) == DirNames

\* line 149: os.MkdirTemp only creates a directory that does not exist yet
FreshNames(existing) == DirNames \ existing

\* variant: the removal is deferred before the error is looked at
runPerfProfile_MkdirTemp_DeferFirst(s) ==
    /\ pc[s] = "mkdirTemp"
    /\ \/ /\ Fail(s, "Failed to create temp directory: mkdir /tmp: no space left on device",
                  StatusInternalServerError)
          /\ calls' = [calls EXCEPT ![s] =
                 @ \o <<Call("os.MkdirTemp", <<NoDir>>),
                        Call("http.Error", <<"500">>)>>]
          /\ defers' = [defers EXCEPT ![s] =
                 Defer(@, Call("os.RemoveAll", <<NoDir>>))]
          /\ UNCHANGED <<dirs, tempDir>>
       \/ \E d \in FreshNames(dirs) :
             /\ dirs' = dirs \cup {d}
             /\ tempDir' = [tempDir EXCEPT ![s] = d]
             /\ defers' = [defers EXCEPT ![s] =
                    Defer(@, Call("os.RemoveAll", <<d>>))]
             /\ calls' = [calls EXCEPT ![s] =
                    Append(@, Call("os.MkdirTemp", <<d>>))]
             /\ pc' = [pc EXCEPT ![s] = "perfRecord"]
             /\ resp' = resp
    /\ UNCHANGED <<env, files, req, dur, cmd, pprofFile>>

\* lines 149-157: os.MkdirTemp either fails or creates a directory whose
\* name no existing directory has; on success its removal is deferred
runPerfProfile_MkdirTemp(s) ==
    /\ pc[s] = "mkdirTemp"
    /\ \/ /\ Fail(s, "Failed to create temp directory: mkdir /tmp: no space left on device",
                  StatusInternalServerError)
          /\ calls' = [calls EXCEPT ![s] =
                 @ \o <<Call("os.MkdirTemp", <<NoDir>>),
                        Call("http.Error", <<"500">>)>>]
          /\ UNCHANGED <<dirs, tempDir, defers>>
       \/ \E d \in FreshNames(dirs) :
             /\ dirs' = dirs \cup {d}
             /\ tempDir' = [tempDir EXCEPT ![s] = d]
             /\ defers' = [defers EXCEPT ![s] =
                    Defer(@, Call("os.RemoveAll", <<d>>))]
             /\ calls' = [calls EXCEPT ![s] =
                    Append(@, Call("os.MkdirTemp", <<d>>))]
             /\ pc' = [pc EXCEPT ![s] = "perfRecord"]
             /\ resp' = resp
    /\ UNCHANGED <<env, files, req, dur, cmd, pprofFile>>

perfDataPath(s) == Join(tempDir[s], "perf.data")
pprofPath(s) == Join(tempDir[s], "profile.pb.gz")

\* variant: the run length is not the validated duration
perfArgs_TenFold(pid, path, duration) ==
    <<"perf", "record", "-g", "--pid", pid, "-F", "999", "-o", path, "--",
      "sleep", Itoa(duration * 10)>>

\* line 161: the perf record command line
perfArgs(pid, path, duration) ==
    <<"perf", "record", "-g", "--pid", pid, "-F", "999", "-o", path, "--",
      "sleep", Itoa(duration)>>

\* lines 160-166: perfCmd.Run() starts perf record; the session blocks
runPerfProfile_PerfStart(s) ==
    /\ pc[s] = "perfRecord"
    /\ cmd' = [cmd EXCEPT ![s] = "perf"]
    /\ calls' = [calls EXCEPT ![s] =
           @ \o <<Call("log.Printf", <<"Starting perf record">>),
                  Call("exec.Run", perfArgs(req[s].pid, perfDataPath(s), dur[s]))>>]
    /\ pc' = [pc EXCEPT ![s] = "perfWait"]
    /\ UNCHANGED <<env, dirs, files, req, dur, resp, tempDir, defers,
                   pprofFile>>

\* what a tool can leave on its standard error
PerfStderrs ==
    {"", "Error: Permission denied", "No such process",
     "No such process: Permission denied", "permission denied",
     "perf: Segmentation fault"}

\* what perf record can leave at its output path: nothing (Absent), an
\* empty file, or samples
Absent == "<absent>"
PerfOutputs == {Absent, "", "PERFILE2"}

PerfStderrsNow ==
    IF scope = "all" THEN PerfStderrs ELSE {"Error: Permission denied"}

\* the file at path written with content c, or left alone when c is Absent
WriteFile(fs, path, c) ==
    IF c = Absent THEN fs
    ELSE [p \in DOMAIN fs \cup {path} |-> IF p = path THEN c ELSE fs[p]]

\* variant: the two patterns tested in the other order
perfFailure_Reordered(pid, err, stderrStr) ==
    IF Contains(stderrStr, "No such process")
    THEN [code |-> StatusBadRequest,
          msg |-> "Process with PID " \o pid \o " not found or exited during profiling"]
    ELSE IF Contains(stderrStr, "Permission denied")
    THEN [code |-> StatusForbidden,
          msg |-> "Permission denied: perf requires elevated privileges. Run with sudo or adjust perf_event_paranoid settings."]
    ELSE [code |-> StatusInternalServerError,
          msg |-> "perf record failed: " \o err \o "\nStderr: " \o stderrStr]

\* lines 172-178: the status and message for a failed perf record
perfFailure(pid, err, stderrStr) ==
    IF Contains(stderrStr, "Permission denied")
    THEN [code |-> StatusForbidden,
          msg |-> "Permission denied: perf requires elevated privileges. Run with sudo or adjust perf_event_paranoid settings."]
    ELSE IF Contains(stderrStr, "No such process")
    THEN [code |-> StatusBadRequest,
          msg |-> "Process with PID " \o pid \o " not found or exited during profiling"]
    ELSE [code |-> StatusInternalServerError,
          msg |-> "perf record failed: " \o err \o "\nStderr: " \o stderrStr]

\* lines 166-180: perf record exits; a non-zero exit is classified from
\* its standard error
runPerfProfile_PerfExit(s) ==
    /\ pc[s] = "perfWait"
    /\ cmd[s] = "perf"
    /\ cmd' = [cmd EXCEPT ![s] = NoCmd]
    /\ \E out \in PerfOutputs, stderrStr \in PerfStderrsNow, err \in {"", "exit status 1"} :
          /\ files' = WriteFile(files, perfDataPath(s), out)
          /\ IF err # ""
             THEN LET f == perfFailure(req[s].pid, err, stderrStr)
                  IN  /\ Fail(s, f.msg, f.code)
                      /\ calls' = [calls EXCEPT ![s] =
                             @ \o <<Call("log.Printf", <<"perf record failed: %v", err>>),
                                    Call("log.Printf", <<"perf stderr: %s", stderrStr>>),
                                    Call("http.Error", <<Itoa(f.code)>>)>>]
             ELSE /\ pc' = [pc EXCEPT ![s] = "statPerfData"]
                  /\ UNCHANGED <<resp, calls>>
    /\ UNCHANGED <<env, dirs, req, dur, tempDir, defers, pprofFile>>

\* variant: an empty output file is let through
outputCheck_ExistsOnly(fs, path, missingMsg, emptyMsg) ==
    IF path \notin DOMAIN fs
    THEN [code |-> StatusInternalServerError, msg |-> missingMsg]
    ELSE [code |-> 0, msg |-> ""]

\* lines 183-189 and 214-220: the status and message when a stage's output
\* file is missing or empty, code 0 when it has content
outputCheck(fs, path, missingMsg, emptyMsg) ==
    IF path \notin DOMAIN fs
    THEN [code |-> StatusInternalServerError, msg |-> missingMsg]
    ELSE IF Len(fs[path]) = 0
    THEN [code |-> StatusInternalServerError, msg |-> emptyMsg]
    ELSE [code |-> 0, msg |-> ""]

\* lines 183-189
runPerfProfile_StatPerfData(s) ==
    /\ pc[s] = "statPerfData"
    /\ LET c == outputCheck(files, perfDataPath(s),
                    "perf.data file was not created",
                    "perf.data file is empty - no samples collected")
       IN  IF c.code # 0
           THEN /\ Fail(s, c.msg, c.code)
                /\ calls' = [calls EXCEPT ![s] =
                       @ \o <<Call("os.Stat", <<perfDataPath(s)>>),
                              Call("http.Error", <<Itoa(c.code)>>)>>]
           ELSE /\ pc' = [pc EXCEPT ![s] = "pprofConvert"]
                /\ calls' = [calls EXCEPT ![s] =
                       Append(@, Call("os.Stat", <<perfDataPath(s)>>))]
                /\ resp' = resp
    /\ UNCHANGED <<env, dirs, files, req, dur, tempDir, defers, cmd,
                   pprofFile>>

\* line 193: the pprof conversion command line
pprofArgs(out, in) == <<"pprof", "-proto", "-output", out, in>>

\* lines 192-198: pprofCmd.Run() starts the conversion; the session blocks
runPerfProfile_PprofStart(s) ==
    /\ pc[s] = "pprofConvert"
    /\ cmd' = [cmd EXCEPT ![s] = "pprof"]
    /\ calls' = [calls EXCEPT ![s] =
           @ \o <<Call("log.Printf", <<"Converting perf.data to pprof format">>),
                  Call("exec.Run", pprofArgs(pprofPath(s), perfDataPath(s)))>>]
    /\ pc' = [pc EXCEPT ![s] = "pprofWait"]
    /\ UNCHANGED <<env, dirs, files, req, dur, resp, tempDir, defers,
                   pprofFile>>

PprofStderrs ==
    {"", "profile has no samples", "open perf.data: permission denied",
     "permission denied: no samples", "No samples", "Permission denied",
     "unrecognized profile format"}

PprofStderrsNow ==
    IF scope = "all" THEN PprofStderrs ELSE {"profile has no samples"}

\* what pprof can leave at its output path
PprofOutputs == {Absent, "", "gz"}

\* variant: the two patterns tested in the other order
pprofFailure_Reordered(err, stderrStr) ==
    IF Contains(stderrStr, "permission denied")
    THEN [code |-> StatusForbidden,
          msg |-> "Permission denied accessing perf.data file"]
    ELSE IF Contains(stderrStr, "no samples")
    THEN [code |-> StatusBadRequest,
          msg |-> "No samples found in perf.data - process may have been idle during profiling"]
    ELSE [code |-> StatusInternalServerError,
          msg |-> "pprof conversion failed: " \o err \o "\nStderr: " \o stderrStr]

\* lines 203-209: the status and message for a failed conversion
pprofFailure(err, stderrStr) ==
    IF Contains(stderrStr, "no samples")
    THEN [code |-> StatusBadRequest,
          msg |-> "No samples found in perf.data - process may have been idle during profiling"]
    ELSE IF Contains(stderrStr, "permission denied")
    THEN [code |-> StatusForbidden,
          msg |-> "Permission denied accessing perf.data file"]
    ELSE [code |-> StatusInternalServerError,
          msg |-> "pprof conversion failed: " \o err \o "\nStderr: " \o stderrStr]

\* lines 198-211: the conversion exits
runPerfProfile_PprofExit(s) ==
    /\ pc[s] = "pprofWait"
    /\ cmd[s] = "pprof"
    /\ cmd' = [cmd EXCEPT ![s] = NoCmd]
    /\ \E out \in PprofOutputs, stderrStr \in PprofStderrsNow, err \in {"", "exit status 1"} :
          /\ files' = WriteFile(files, pprofPath(s), out)
          /\ IF err # ""
             THEN LET f == pprofFailure(err, stderrStr)
                  IN  /\ Fail(s, f.msg, f.code)
                      /\ calls' = [calls EXCEPT ![s] =
                             @ \o <<Call("log.Printf", <<"pprof conversion failed: %v", err>>),
                                    Call("log.Printf", <<"pprof stderr: %s", stderrStr>>),
                                    Call("http.Error", <<Itoa(f.code)>>)>>]
             ELSE /\ pc' = [pc EXCEPT ![s] = "statPprof"]
                  /\ UNCHANGED <<resp, calls>>
    /\ UNCHANGED <<env, dirs, req, dur, tempDir, defers, pprofFile>>

\* lines 214-220
runPerfProfile_StatPprof(s) ==
    /\ pc[s] = "statPprof"
    /\ LET c == outputCheck(files, pprofPath(s),
                    "pprof file was not created",
                    "pprof file is empty - conversion produced no data")
       IN  IF c.code # 0
           THEN /\ Fail(s, c.msg, c.code)
                /\ calls' = [calls EXCEPT ![s] =
                       @ \o <<Call("os.Stat", <<pprofPath(s)>>),
                              Call("http.Error", <<Itoa(c.code)>>)>>]
           ELSE /\ pc' = [pc EXCEPT ![s] = "openPprof"]
                /\ calls' = [calls EXCEPT ![s] =
                       Append(@, Call("os.Stat", <<pprofPath(s)>>))]
                /\ resp' = resp
    /\ UNCHANGED <<env, dirs, files, req, dur, tempDir, defers, cmd,
                   pprofFile>>

\* lines 223-228: os.Open either fails or yields a handle whose Close is
\* deferred
runPerfProfile_Open(s) ==
    /\ pc[s] = "openPprof"
    /\ \/ /\ Fail(s, "Failed to open pprof file: open " \o pprofPath(s)
                     \o ": too many open files", StatusInternalServerError)
          /\ calls' = [calls EXCEPT ![s] =
                 @ \o <<Call("os.Open", <<pprofPath(s)>>),
                        Call("http.Error", <<"500">>)>>]
          /\ UNCHANGED <<pprofFile, defers>>
       \/ /\ pprofPath(s) \in DOMAIN files
          /\ pprofFile' = [pprofFile EXCEPT ![s] =
                 [open |-> TRUE, data |-> files[pprofPath(s)], off |-> 0]]
          /\ defers' = [defers EXCEPT ![s] =
                 Defer(@, Call("pprofFile.Close", <<pprofPath(s)>>))]
          /\ calls' = [calls EXCEPT ![s] =
                 Append(@, Call("os.Open", <<pprofPath(s)>>))]
          /\ pc' = [pc EXCEPT ![s] = "setHeaders"]
          /\ resp' = resp
    /\ UNCHANGED <<env, dirs, files, req, dur, tempDir, cmd>>

\* variant: the two values in the other order
dispositionOf_Swapped(pid, duration) ==
    "attachment; filename=profile-" \o Itoa(duration) \o "-" \o pid \o ".pb.gz"

\* line 232
dispositionOf(pid, duration) ==
    "attachment; filename=profile-" \o pid \o "-" \o Itoa(duration) \o ".pb.gz"

\* lines 231-232
runPerfProfile_SetHeaders(s) ==
    /\ pc[s] = "setHeaders"
    /\ resp' = [resp EXCEPT ![s] =
           SetHeader(SetHeader(@, "Content-Type", "application/octet-stream"),
                     "Content-Disposition", dispositionOf(req[s].pid, dur[s]))]
    /\ calls' = [calls EXCEPT ![s] =
           @ \o <<Call("w.Header.Set", <<"Content-Type">>),
                  Call("w.Header.Set", <<"Content-Disposition">>)>>]
    /\ pc' = [pc EXCEPT ![s] = "copy"]
    /\ UNCHANGED <<env, dirs, files, req, dur, tempDir, defers, cmd,
                   pprofFile>>

\* variant: a failed copy sets an error status when none has been sent
copyFailure_StatusOnly(r) == WriteHeader(r, StatusInternalServerError)

\* variant: a failed copy is also reported to the client
copyFailure_Reported(r) ==
    Error(r, "Failed to stream pprof file", StatusInternalServerError)

\* lines 235-238: a failed copy is logged and nothing more is written
copyFailure(r) == r

\* lines 235-238, one round of io.Copy's loop: the next byte of the file
\* goes to the response, or the read or the write fails, which is logged
\* and ends the handler
runPerfProfile_CopyStep(s) ==
    /\ pc[s] = "copy"
    /\ pprofFile[s].open
    /\ pprofFile[s].off < Len(pprofFile[s].data)
    /\ \/ /\ pprofFile' = [pprofFile EXCEPT ![s].off = @ + 1]
          /\ resp' = [resp EXCEPT ![s] =
                 Write(@, "file", Char(pprofFile[s].data, pprofFile[s].off + 1))]
          /\ calls' = [calls EXCEPT ![s] = Append(@, Call("w.Write", <<"file">>))]
          /\ pc' = pc
       \/ /\ calls' = [calls EXCEPT ![s] =
                 Append(@, Call("log.Printf", <<"Failed to stream pprof file: %v">>))]
          /\ resp' = [resp EXCEPT ![s] = copyFailure(@)]
          /\ pc' = [pc EXCEPT ![s] = "return"]
          /\ UNCHANGED pprofFile
    /\ UNCHANGED <<env, dirs, files, req, dur, tempDir, defers, cmd>>

\* lines 235 and 240: io.Copy reaches the end of the file
runPerfProfile_CopyDone(s) ==
    /\ pc[s] = "copy"
    /\ pprofFile[s].open
    /\ pprofFile[s].off = Len(pprofFile[s].data)
    /\ calls' = [calls EXCEPT ![s] =
           Append(@, Call("log.Printf", <<"Successfully served pprof profile">>))]
    /\ pc' = [pc EXCEPT ![s] = "return"]
    /\ UNCHANGED <<env, dirs, files, req, dur, resp, tempDir, defers, cmd,
                   pprofFile>>

\* os.RemoveAll(dir): the directory and everything below it
RemoveAll(fs, dir) ==
    [p \in {q \in DOMAIN fs : ~HasPrefix(q, dir \o "/")} |-> fs[p]]

\* a return of the handler runs its deferred calls, last registered first:
\* line 228 pprofFile.Close(), line 154 os.RemoveAll(tempDir)
RunDeferred(s) ==
    /\ pc[s] = "return"
    /\ defers[s] # <<>>
    /\ LET d == Head(defers[s])
       IN  /\ calls' = [calls EXCEPT ![s] = Append(@, d)]
           /\ IF d.op = "os.RemoveAll"
              THEN /\ dirs' = dirs \ {d.args[1]}
                   /\ files' = RemoveAll(files, d.args[1])
                   /\ pprofFile' = pprofFile
              ELSE /\ pprofFile' = [pprofFile EXCEPT ![s].open = FALSE]
                   /\ UNCHANGED <<dirs, files>>
    /\ defers' = [defers EXCEPT ![s] = Tail(@)]
    /\ UNCHANGED <<env, pc, req, dur, resp, tempDir, cmd>>

\* the handler has returned: net/http completes the response, with status
\* 200 when the handler never sent one
Return(s) ==
    /\ pc[s] = "return"
    /\ defers[s] = <<>>
    /\ resp' = [resp EXCEPT ![s] = WriteHeader(@, StatusOK)]
    /\ pc' = [pc EXCEPT ![s] = "done"]
    /\ UNCHANGED <<env, dirs, files, req, dur, tempDir, defers, cmd,
                   pprofFile, calls>>

(***************************************************************************)
(* runBCCProfile.                                                          *)
(***************************************************************************)
\* lines 246-254: the profile-bpfcc command line, run through sudo
bccArgs(pid, duration) ==
    <<"sudo", "profile-bpfcc", "-p", pid, "-F", "999", "-f", Itoa(duration)>>

\* variant: the profiler is started and not waited for
runBCCProfile_Start_NoWait(s) ==
    /\ pc[s] = "runBCCProfile"
    /\ cmd' = [cmd EXCEPT ![s] = "profile-bpfcc"]
    /\ calls' = [calls EXCEPT ![s] =
           @ \o <<Call("log.Printf", <<"Running command">>),
                  Call("exec.Run", bccArgs(req[s].pid, dur[s]))>>]
    /\ pc' = [pc EXCEPT ![s] = "return"]
    /\ UNCHANGED <<env, dirs, files, req, dur, resp, tempDir, defers,
                   pprofFile>>

\* lines 246-263: cmd.Run() starts the profiler; the session blocks
runBCCProfile_Start(s) ==
    /\ pc[s] = "runBCCProfile"
    /\ cmd' = [cmd EXCEPT ![s] = "profile-bpfcc"]
    /\ calls' = [calls EXCEPT ![s] =
           @ \o <<Call("log.Printf", <<"Running command">>),
                  Call("exec.Run", bccArgs(req[s].pid, dur[s]))>>]
    /\ pc' = [pc EXCEPT ![s] = "bccWait"]
    /\ UNCHANGED <<env, dirs, files, req, dur, resp, tempDir, defers,
                   pprofFile>>

BccStderrs == {"", "Permission denied", "No such process", "OSError: undefined symbol"}
BccStdouts == {"", "main;aeMain;aeProcessEvents 12\n"}

BccStderrsNow ==
    IF scope = "all" THEN BccStderrs ELSE {"OSError: undefined symbol"}

\* variant: the profiler's standard error classified as perf's is
bccFailure_Classified(err, stderrStr) ==
    IF Contains(stderrStr, "Permission denied")
    THEN [code |-> StatusForbidden, msg |-> "Permission denied"]
    ELSE [code |-> StatusInternalServerError,
          msg |-> "Profiler failed: " \o err \o "\nStderr: " \o stderrStr]

\* line 266: the status and message for a failed profiler
bccFailure(err, stderrStr) ==
    [code |-> StatusInternalServerError,
     msg |-> "Profiler failed: " \o err \o "\nStderr: " \o stderrStr]

\* lines 263-275: the profiler exits
runBCCProfile_Exit(s) ==
    /\ pc[s] = "bccWait"
    /\ cmd[s] = "profile-bpfcc"
    /\ cmd' = [cmd EXCEPT ![s] = NoCmd]
    /\ \E stdout \in BccStdouts, stderrStr \in BccStderrsNow, err \in {"", "exit status 1"} :
          LET ran == Call("cmd.Run", <<err, stdout, stderrStr>>)
          IN  IF err # ""
              THEN LET f == bccFailure(err, stderrStr)
                   IN  /\ resp' = [resp EXCEPT ![s] = Error(@, f.msg, f.code)]
                       /\ calls' = [calls EXCEPT ![s] =
                              @ \o <<ran,
                                     Call("log.Printf", <<"Command failed: %v", err>>),
                                     Call("log.Printf", <<"Stderr: %s", stderrStr>>),
                                     Call("http.Error", <<Itoa(f.code)>>)>>]
              ELSE /\ resp' = [resp EXCEPT ![s] =
                          Write(SetHeader(@, "Content-Type", "text/plain"),
                                "stdout", stdout)]
                   /\ calls' = [calls EXCEPT ![s] =
                          @ \o <<ran,
                                 Call("w.Header.Set", <<"Content-Type">>),
                                 Call("w.Write", <<"stdout">>)>>]
    /\ pc' = [pc EXCEPT ![s] = "return"]
    /\ UNCHANGED <<env, dirs, files, req, dur, tempDir, defers, pprofFile>>

(***************************************************************************)
(* The server.                                                             *)
(***************************************************************************)
Next ==
    \E s \in Sessions :
       \/ Receive(s)
       \/ basicAuth(s)
       \/ runProfile_Params(s)
       \/ runProfile_TestMode(s)
       \/ runProfile_ValidatePID(s)
       \/ runPerfProfile_CheckTools(s)
       \/ runPerfProfile_MkdirTemp(s)
       \/ runPerfProfile_PerfStart(s)
       \/ runPerfProfile_PerfExit(s)
       \/ runPerfProfile_StatPerfData(s)
       \/ runPerfProfile_PprofStart(s)
       \/ runPerfProfile_PprofExit(s)
       \/ runPerfProfile_StatPprof(s)
       \/ runPerfProfile_Open(s)
       \/ runPerfProfile_SetHeaders(s)
       \/ runPerfProfile_CopyStep(s)
       \/ runPerfProfile_CopyDone(s)
       \/ RunDeferred(s)
       \/ Return(s)
       \/ runBCCProfile_Start(s)
       \/ runBCCProfile_Exit(s)

Spec == Init /\ [][Next]_vars

SpecConcurrent == InitConcurrent /\ [][Next]_vars

\* the steps of the goroutine that serves session s, from the arrival of
\* its request on
Handle(s) ==
    \/ basicAuth(s)
    \/ runProfile_Params(s)
    \/ runProfile_TestMode(s)
    \/ runProfile_ValidatePID(s)
    \/ runPerfProfile_CheckTools(s)
    \/ runPerfProfile_MkdirTemp(s)
    \/ runPerfProfile_PerfStart(s)
    \/ runPerfProfile_PerfExit(s)
    \/ runPerfProfile_StatPerfData(s)
    \/ runPerfProfile_PprofStart(s)
    \/ runPerfProfile_PprofExit(s)
    \/ runPerfProfile_StatPprof(s)
    \/ runPerfProfile_Open(s)
    \/ runPerfProfile_SetHeaders(s)
    \/ runPerfProfile_CopyStep(s)
    \/ runPerfProfile_CopyDone(s)
    \/ RunDeferred(s)
    \/ Return(s)
    \/ runBCCProfile_Start(s)
    \/ runBCCProfile_Exit(s)

\* a goroutine that can take a step takes it, and a started subprocess
\* exits: Run returns
Fairness == \A s \in Sessions : WF_vars(Handle(s))

SpecFair == Init /\ [][Next]_vars /\ Fairness

(***************************************************************************)
(* Properties.                                                             *)
(***************************************************************************)
\* the collaborator operations a session has called
Ops(s) == {calls[s][i].op : i \in DOMAIN calls[s]}

\* the request of session s has reached runProfile
Received(s) == "runProfile" \in Ops(s)
Completed(s) == pc[s] = "done"

\* the executables a session has started
Started(s) ==
    {calls[s][i].args[1] : i \in {j \in DOMAIN calls[s] : calls[s][j].op = "exec.Run"}}

Body(s) == BodyBytes(resp[s].body)

\* the strings that denote an integer of 1..300 in decimal: an optional
\* plus sign, leading zeros, the digits
ValidSecondsStrings ==
    {sign \o zeros \o Itoa(n) :
        sign \in {"", "+"}, zeros \in {"", "0", "00"}, n \in 1..MaxSeconds}

\* s spells an integer: an optional sign and then only digits, at least one
IsIntegerString(s) ==
    /\ Len(s) > 0
    /\ LET body == IF Char(s, 1) \in {"+", "-"} THEN SubSeq(s, 2, Len(s)) ELSE s
       IN  /\ Len(body) > 0
           /\ \A i \in 1..Len(body) : IsDigit(Char(body, i))

\* the workspace of session s is gone: neither the directory nor a file
\* below it exists
WorkspaceGone(s) ==
    /\ tempDir[s] \notin dirs
    /\ \A p \in DOMAIN files : ~HasPrefix(p, tempDir[s] \o "/")

\* C1: a request that acquired a workspace directory has none left once it
\* has completed, whichever way it ended
C1_WorkspaceAbsentAfterRequest ==
    \A s \in Sessions :
       (Completed(s) /\ tempDir[s] # NoDir) => WorkspaceGone(s)

C1_Witness ==
    \E s \in Sessions :
       /\ Completed(s)
       /\ tempDir[s] # NoDir
       /\ "os.Open" \in Ops(s)
       /\ resp[s].status = StatusInternalServerError

\* C2: a seconds value that does not spell an integer of 1..300 gets status
\* 400 and no subprocess is ever started; one that does is never answered
\* with "Invalid seconds" and becomes the session's duration
C2_DurationValidated ==
    \A s \in Sessions :
       Received(s) =>
          /\ req[s].seconds \notin ValidSecondsStrings =>
                /\ "exec.Run" \notin Ops(s)
                /\ cmd[s] = NoCmd
                /\ Completed(s) => resp[s].status = StatusBadRequest
          /\ req[s].seconds \in ValidSecondsStrings =>
                /\ Completed(s) => Body(s) # "Invalid seconds\n"
                /\ (req[s].pid # "" /\ pc[s] # "runProfile") =>
                      /\ dur[s] \in 1..MaxSeconds
                      /\ \E sign \in {"", "+"}, zeros \in {"", "0", "00"} :
                            req[s].seconds = sign \o zeros \o Itoa(dur[s])

C2_Witness ==
    \E s \in Sessions :
       /\ Completed(s)
       /\ req[s].seconds = "301"
       /\ req[s].pid = "1"
       /\ req[s].test # "true"
       /\ resp[s].status = StatusBadRequest

\* C3: a request without pid, without seconds or without both gets status
\* 400, and no process lookup, tool lookup, workspace creation or
\* subprocess start happens for it
C3_MissingParamsRejected ==
    \A s \in Sessions :
       (Received(s) /\ (req[s].pid = "" \/ req[s].seconds = "")) =>
          /\ Ops(s) \cap {"os.Stat", "exec.LookPath", "os.MkdirTemp", "exec.Run"} = {}
          /\ tempDir[s] = NoDir
          /\ Completed(s) => resp[s].status = StatusBadRequest

C3_Witness ==
    \E s \in Sessions :
       /\ Completed(s)
       /\ req[s].pid = ""
       /\ req[s].seconds = "5"
       /\ req[s].test = "true"
       /\ resp[s].status = StatusBadRequest

\* C4: a request with test=true never causes a /proc lookup, an executable
\* lookup, a workspace creation or a subprocess start
C4_TestModeTouchesNothing ==
    \A s \in Sessions :
       (Received(s) /\ req[s].test = "true") =>
          /\ Ops(s) \cap {"os.Stat", "exec.LookPath", "os.MkdirTemp", "exec.Run",
                          "os.Open", "os.RemoveAll"} = {}
          /\ tempDir[s] = NoDir
          /\ cmd[s] = NoCmd

C4_Witness ==
    \E s \in Sessions :
       /\ Completed(s)
       /\ req[s].test = "true"
       /\ req[s].pid = "999999"
       /\ req[s].format = "pprof"
       /\ resp[s].status = StatusOK

\* C5: outside test mode and with valid seconds, a pid that spells an
\* integer with no entry in the process table is answered 400 with a body
\* that starts with "Invalid PID" and mentions "does not exist", and no tool
\* lookup, workspace creation or subprocess start happens
C5_NonexistentPidRejected ==
    \A s \in Sessions :
       ( /\ Received(s)
         /\ req[s].test # "true"
         /\ req[s].seconds \in ValidSecondsStrings
         /\ IsIntegerString(req[s].pid)
         /\ req[s].pid \notin ProcTable ) =>
          /\ Ops(s) \cap {"exec.LookPath", "os.MkdirTemp", "exec.Run"} = {}
          /\ tempDir[s] = NoDir
          /\ Completed(s) =>
                /\ resp[s].status = StatusBadRequest
                /\ HasPrefix(Body(s), "Invalid PID")
                /\ Contains(Body(s), "does not exist")

C5_Witness ==
    \E s \in Sessions :
       /\ Completed(s)
       /\ req[s].pid = "999999"
       /\ req[s].seconds = "5"
       /\ req[s].test # "true"
       /\ "os.Stat" \in Ops(s)
       /\ Contains(Body(s), "does not exist")

ArtifactTypes == {"application/octet-stream", "text/plain"}

\* something of an error response has been written
ErrorWritten(r) ==
    r.status >= 400 \/ "error" \in BodySources(r.body)

\* something of an artifact response has been written
ArtifactWritten(r) ==
    \/ BodySources(r.body) \ {"error"} # {}
    \/ r.header["Content-Disposition"] # ""
    \/ r.header["Content-Type"] \in ArtifactTypes

ErrorResponse(r) ==
    r.status >= 400 /\ Len(r.body) = 1 /\ BodySources(r.body) = {"error"}

ArtifactResponse(r) ==
    /\ r.status = StatusOK
    /\ "error" \notin BodySources(r.body)
    /\ r.header["Content-Type"] \in ArtifactTypes

\* C6: no response ever carries both an error (status or message) and
\* artifact bytes or success headers, and a completed request has exactly
\* one of the two outcomes
C6_OneOutcome ==
    \A s \in Sessions :
       /\ ~(ErrorWritten(resp[s]) /\ ArtifactWritten(resp[s]))
       /\ Completed(s) => (ErrorResponse(resp[s]) # ArtifactResponse(resp[s]))

C6_Witness ==
    \E s \in Sessions :
       /\ Completed(s)
       /\ resp[s].status = StatusOK
       /\ Body(s) = "g"
       /\ resp[s].header["Content-Disposition"] # ""

\* C7: the removal of the workspace is the last thing a session does: the
\* copy has ended and the file handle is closed before it, no subprocess
\* is running, and nothing is called after it; while the copy runs the
\* workspace and the artifact exist
C7_TeardownLast ==
    \A s \in Sessions :
       /\ \A i \in DOMAIN calls[s] :
             calls[s][i].op = "os.RemoveAll" =>
                /\ i = Len(calls[s])
                /\ pc[s] \in {"return", "done"}
                /\ ~pprofFile[s].open
                /\ cmd[s] = NoCmd
                /\ "w.Header.Set" \in Ops(s) =>
                      /\ \E j \in 1..(i - 1) : calls[s][j].op = "pprofFile.Close"
                      /\ \E j \in 1..(i - 1) :
                            /\ calls[s][j].op = "log.Printf"
                            /\ calls[s][j].args[1] \in
                                  {"Failed to stream pprof file: %v",
                                   "Successfully served pprof profile"}
       /\ pc[s] = "copy" =>
             /\ tempDir[s] \in dirs
             /\ pprofPath(s) \in DOMAIN files
             /\ "os.RemoveAll" \notin Ops(s)

C7_Witness ==
    \E s \in Sessions :
       /\ Completed(s)
       /\ Body(s) = "gz"
       /\ calls[s][Len(calls[s])].op = "os.RemoveAll"
       /\ "pprofFile.Close" \in Ops(s)

\* the standard error a session logged for a failed tool
LoggedStderr(s, fmt) ==
    {calls[s][i].args[2] :
        i \in {j \in DOMAIN calls[s] :
                  calls[s][j].op = "log.Printf" /\ calls[s][j].args[1] = fmt}}

\* C8: a failed capture is classified from its standard error, in order:
\* "Permission denied" gives 403, otherwise "No such process" gives 400,
\* otherwise 500 with the standard error in the body; the conversion is
\* not started and the workspace is deleted
C8_CaptureFailureClassified ==
    \A s \in Sessions :
       \A e \in LoggedStderr(s, "perf stderr: %s") :
          /\ Contains(e, "Permission denied") =>
                resp[s].status = StatusForbidden
          /\ (~Contains(e, "Permission denied") /\ Contains(e, "No such process")) =>
                resp[s].status = StatusBadRequest
          /\ (~Contains(e, "Permission denied") /\ ~Contains(e, "No such process")) =>
                /\ resp[s].status = StatusInternalServerError
                /\ Contains(Body(s), e)
          /\ "pprof" \notin Started(s)
          /\ pc[s] \in {"return", "done"}
          /\ Completed(s) => WorkspaceGone(s)

C8_Witness ==
    \E s \in Sessions :
       /\ Completed(s)
       /\ "No such process: Permission denied" \in LoggedStderr(s, "perf stderr: %s")
       /\ resp[s].status = StatusForbidden
       /\ "os.RemoveAll" \in Ops(s)

\* a stage's tool exited zero and the check of its output found the file
\* present and empty
EmptyOutput(s) ==
    /\ pc[s] = "return"
    /\ Len(calls[s]) >= 2
    /\ calls[s][Len(calls[s]) - 1].op = "os.Stat"
    /\ calls[s][Len(calls[s])].op = "http.Error"
    /\ LET p == calls[s][Len(calls[s]) - 1].args[1]
       IN  p \in DOMAIN files /\ files[p] = ""

\* C9: a stage whose tool exits zero with an empty output file ends the
\* request with status 400
C9_EmptyOutputIs400 ==
    \A s \in Sessions :
       EmptyOutput(s) => resp[s].status = StatusBadRequest

\* C10: a failed conversion is classified from its standard error, in
\* order: "no samples" gives 400, otherwise "permission denied" gives 403,
\* otherwise 500 with the standard error in the body; no artifact is
\* streamed
C10_ConversionFailureClassified ==
    \A s \in Sessions :
       \A e \in LoggedStderr(s, "pprof stderr: %s") :
          /\ Contains(e, "no samples") =>
                resp[s].status = StatusBadRequest
          /\ (~Contains(e, "no samples") /\ Contains(e, "permission denied")) =>
                resp[s].status = StatusForbidden
          /\ (~Contains(e, "no samples") /\ ~Contains(e, "permission denied")) =>
                /\ resp[s].status = StatusInternalServerError
                /\ Contains(Body(s), e)
          /\ BodySources(resp[s].body) = {"error"}
          /\ resp[s].header["Content-Disposition"] = ""
          /\ Ops(s) \cap {"os.Open", "w.Write", "w.Header.Set"} = {}

C10_Witness ==
    \E s \in Sessions :
       /\ Completed(s)
       /\ "permission denied: no samples" \in LoggedStderr(s, "pprof stderr: %s")
       /\ resp[s].status = StatusBadRequest

\* the request of session s passed parameter validation and the process
\* check outside test mode, and has been answered
RealRequestDone(s) ==
    /\ Completed(s)
    /\ Received(s)
    /\ req[s].test # "true"
    /\ req[s].seconds \in ValidSecondsStrings
    /\ req[s].pid \in ProcTable
    /\ ~HasPrefix(Body(s), "Invalid PID")

\* C11: when perf or pprof cannot be resolved, a validated binary request
\* ends with status 500 and a message naming the missing tool, and no
\* workspace is allocated and no subprocess is started
C11_MissingToolFailsFast ==
    \A s \in Sessions :
       (Received(s) /\ req[s].format = "pprof" /\ installed # Tools) =>
          /\ Ops(s) \cap {"os.MkdirTemp", "exec.Run"} = {}
          /\ tempDir[s] = NoDir
          /\ cmd[s] = NoCmd
          /\ RealRequestDone(s) =>
                /\ resp[s].status = StatusInternalServerError
                /\ Contains(Body(s),
                       (IF "perf" \notin installed THEN "perf" ELSE "pprof")
                       \o " tool not found")

C11_Witness ==
    \E s \in Sessions :
       /\ RealRequestDone(s)
       /\ req[s].format = "pprof"
       /\ installed = {"perf"}
       /\ resp[s].status = StatusInternalServerError
       /\ Contains(Body(s), "pprof tool not found")

\* the positions in the call log where a subprocess is started
Runs(s) == {i \in DOMAIN calls[s] : calls[s][i].op = "exec.Run"}

\* what the profiler's Run returned: <<error, stdout, stderr>>
Outcomes(s) ==
    {calls[s][i].args : i \in {j \in DOMAIN calls[s] : calls[s][j].op = "cmd.Run"}}

\* C12: a validated folded request runs the profiler exactly once; a
\* non-zero exit gives 500 with the standard error and none of the standard
\* output in the body, whatever the standard error says; a zero exit gives
\* 200, text/plain and the standard output as the body
C12_FoldedPipeline ==
    \A s \in Sessions :
       (Received(s) /\ req[s].format = "folded") =>
          /\ Cardinality(Runs(s)) <= 1
          /\ \A i \in Runs(s) : SubSeq(calls[s][i].args, 1, 2) = <<"sudo", "profile-bpfcc">>
          /\ RealRequestDone(s) =>
                /\ Cardinality(Runs(s)) = 1
                /\ Cardinality(Outcomes(s)) = 1
                /\ \A o \in Outcomes(s) :
                      IF o[1] # ""
                      THEN /\ resp[s].status = StatusInternalServerError
                           /\ Contains(Body(s), o[3])
                           /\ BodySources(resp[s].body) = {"error"}
                           /\ o[2] # "" => ~Contains(Body(s), o[2])
                      ELSE /\ resp[s].status = StatusOK
                           /\ resp[s].header["Content-Type"] = "text/plain"
                           /\ Body(s) = o[2]

C12_Witness ==
    \E s \in Sessions :
       /\ RealRequestDone(s)
       /\ req[s].format = "folded"
       /\ \E o \in Outcomes(s) :
             o[1] # "" /\ o[2] # "" /\ o[3] = "Permission denied"
       /\ resp[s].status = StatusInternalServerError

\* a test-mode request with a pid and a duration of 1..300 has been answered
MockDone(s) ==
    /\ Completed(s)
    /\ Received(s)
    /\ req[s].test = "true"
    /\ req[s].pid # ""
    /\ req[s].seconds \in ValidSecondsStrings

\* C13: a test-mode request gets 200 and a body that embeds the pid and
\* the duration; two such requests with the same pid and duration get the
\* same body whatever their formats, the Content-Type follows the format,
\* and the same request twice gets the same response
C13_MockDeterministic ==
    /\ \A s \in Sessions :
          MockDone(s) =>
             /\ resp[s].status = StatusOK
             /\ Contains(Body(s), "PID " \o req[s].pid \o ",")
             /\ Contains(Body(s), "duration " \o Itoa(dur[s]) \o " seconds")
             /\ resp[s].header["Content-Type"] =
                   (IF req[s].format = "pprof"
                    THEN "application/octet-stream" ELSE "text/plain")
    /\ \A s, t \in Sessions :
          (MockDone(s) /\ MockDone(t) /\ req[s].pid = req[t].pid /\ dur[s] = dur[t]) =>
             /\ Body(s) = Body(t)
             /\ req[s].format = req[t].format => resp[s] = resp[t]

C13_Witness ==
    \E s, t \in Sessions :
       /\ MockDone(s) /\ MockDone(t)
       /\ req[s].pid = "abc" /\ req[t].pid = "abc"
       /\ req[s].seconds = "+7" /\ req[t].seconds = "007"
       /\ req[s].format = "pprof" /\ req[t].format = "folded"
       /\ Body(s) = Body(t)
       /\ resp[s] # resp[t]

\* the formats session s has logged with
Logged(s) ==
    {calls[s][i].args[1] : i \in {j \in DOMAIN calls[s] : calls[s][j].op = "log.Printf"}}

\* both stages of session s exited zero and left non-empty output files
BothStagesOK(s) ==
    /\ {"perf", "pprof"} \subseteq Started(s)
    /\ Logged(s) \cap {"perf record failed: %v", "pprof conversion failed: %v"} = {}
    /\ pc[s] \notin {"perfWait", "pprofWait"}
    /\ {perfDataPath(s), pprofPath(s)} \subseteq DOMAIN files
    /\ files[perfDataPath(s)] # ""
    /\ files[pprofPath(s)] # ""

\* the handler of session s has returned and its workspace still stands
Returned(s) == pc[s] = "return" /\ tempDir[s] \in dirs

ExpectedDisposition(s) ==
    "filename=profile-" \o req[s].pid \o "-" \o Itoa(dur[s]) \o ".pb.gz"

\* C14 as stated: whenever both stages exit zero with non-empty outputs the
\* response is 200, application/octet-stream, with the Content-Disposition
\* and the bytes of the conversion-stage output file
C14_BothStagesOKServes ==
    \A s \in Sessions :
       (Returned(s) /\ BothStagesOK(s)) =>
          /\ resp[s].status = StatusOK
          /\ resp[s].header["Content-Type"] = "application/octet-stream"
          /\ Contains(resp[s].header["Content-Disposition"], ExpectedDisposition(s))
          /\ Body(s) = files[pprofPath(s)]

\* C14: a binary request in which both stages exit zero with non-empty
\* outputs, the artifact opens and the copy completes gets 200,
\* application/octet-stream, a Content-Disposition naming
\* profile-<pid>-<duration>.pb.gz and the bytes of the conversion-stage
\* output file; a failed open gives 500 without the header, a failed copy
\* leaves a proper prefix of the file; the header is set only after the
\* artifact of a binary non-test request has been opened
C14_ArtifactServed ==
    \A s \in Sessions :
       /\ (Returned(s) /\ BothStagesOK(s)) =>
             /\ "os.Open" \in Ops(s)
             /\ "Successfully served pprof profile" \in Logged(s) =>
                   /\ resp[s].status = StatusOK
                   /\ resp[s].header["Content-Type"] = "application/octet-stream"
                   /\ Contains(resp[s].header["Content-Disposition"],
                               ExpectedDisposition(s))
                   /\ Body(s) = files[pprofPath(s)]
             /\ "Failed to stream pprof file: %v" \in Logged(s) =>
                   /\ resp[s].status \in {0, StatusOK}
                   /\ Contains(resp[s].header["Content-Disposition"],
                               ExpectedDisposition(s))
                   /\ Len(Body(s)) < Len(files[pprofPath(s)])
                   /\ HasPrefix(files[pprofPath(s)], Body(s))
             /\ Logged(s) \cap {"Successfully served pprof profile",
                                "Failed to stream pprof file: %v"} = {} =>
                   /\ resp[s].status = StatusInternalServerError
                   /\ resp[s].header["Content-Disposition"] = ""
       /\ resp[s].header["Content-Disposition"] # "" =>
             /\ req[s].format = "pprof"
             /\ req[s].test # "true"
             /\ "os.Open" \in Ops(s)
             /\ "http.Error" \notin Ops(s)
             /\ BodySources(resp[s].body) \subseteq {"file"}

C14_Witness ==
    \E s \in Sessions :
       /\ Returned(s)
       /\ BothStagesOK(s)
       /\ "Successfully served pprof profile" \in Logged(s)
       /\ req[s].pid = "42"
       /\ req[s].seconds = "+7"
       /\ Contains(resp[s].header["Content-Disposition"], "profile-42-7.pb.gz")
       /\ Body(s) = files[pprofPath(s)]

\* why the parameter validator rejects a request, "" when it does not
Cause(r) ==
    IF r.pid = "" \/ r.seconds = "" THEN "missing"
    ELSE IF ~IsIntegerString(r.seconds) THEN "not a number"
    ELSE IF r.seconds \notin ValidSecondsStrings THEN "out of range"
    ELSE ""

\* C15: two requests the parameter validator rejects for different causes
\* (missing parameter, duration out of range, duration not a number) get
\* different messages
C15_DistinctMessages ==
    \A s, t \in Sessions :
       (/\ Completed(s) /\ Received(s) /\ Cause(req[s]) # ""
        /\ Completed(t) /\ Received(t) /\ Cause(req[t]) # ""
        /\ Cause(req[s]) # Cause(req[t])) =>
          Body(s) # Body(t)

\* a non-empty string of decimal digits
NonNegativeIntegerString(p) ==
    /\ Len(p) > 0
    /\ \A i \in 1..Len(p) : IsDigit(Char(p, i))

\* the process check of session s has been made and the request answered
PidChecked(s) ==
    /\ Completed(s)
    /\ Received(s)
    /\ req[s].test # "true"
    /\ req[s].seconds \in ValidSecondsStrings
    /\ req[s].pid # ""

\* C16: the process check fails with a message chosen by cause: malformed
\* for every string that is not a non-negative integer, no such process, or
\* inaccessible; it succeeds only for a non-negative integer whose entry is
\* inspectable
C16_MessageByCause ==
    \A s \in Sessions :
       PidChecked(s) =>
          LET rejected == HasPrefix(Body(s), "Invalid PID: ")
          IN  /\ ~NonNegativeIntegerString(req[s].pid) =>
                    rejected /\ Contains(Body(s), "invalid PID format")
              /\ (NonNegativeIntegerString(req[s].pid) /\ req[s].pid \notin ProcTable) =>
                    rejected /\ Contains(Body(s), "does not exist")
              /\ (req[s].pid \in ProcTable /\ rejected) =>
                    Contains(Body(s), "cannot access")

\* a string of decimal digits that are not all zero
PositiveIntegerString(p) ==
    /\ NonNegativeIntegerString(p)
    /\ \E i \in 1..Len(p) : Char(p, i) # "0"

\* C17 as stated: in every mode, a request whose pid is not a positive
\* integer starts no process and never gets 200
C17_BadPidRejectedInEveryMode ==
    \A s \in Sessions :
       (Received(s) /\ ~PositiveIntegerString(req[s].pid)) =>
          /\ "exec.Run" \notin Ops(s)
          /\ resp[s].status # StatusOK
          /\ Completed(s) => resp[s].status = StatusBadRequest

\* C17: outside test mode, a request whose pid is not a positive integer
\* starts no process, allocates no workspace, writes no artifact byte and is
\* answered 400
C17_BadPidRejected ==
    \A s \in Sessions :
       (Received(s) /\ req[s].test # "true" /\ ~PositiveIntegerString(req[s].pid)) =>
          /\ Ops(s) \cap {"exec.Run", "os.MkdirTemp", "exec.LookPath"} = {}
          /\ resp[s].status \in {0, StatusBadRequest}
          /\ BodySources(resp[s].body) \subseteq {"error"}
          /\ Completed(s) => resp[s].status = StatusBadRequest

C17_Witness ==
    \E s \in Sessions :
       /\ Completed(s)
       /\ Received(s)
       /\ req[s].test # "true"
       /\ req[s].seconds \in ValidSecondsStrings
       /\ req[s].pid = "0"
       /\ resp[s].status = StatusBadRequest
       /\ Contains(Body(s), "does not exist")

\* how many times session s has started the executable tool
RunCount(s, tool) ==
    Cardinality({i \in Runs(s) : calls[s][i].args[1] = tool})

\* how many times session s has called os.MkdirTemp
MkdirCount(s) ==
    Cardinality({i \in DOMAIN calls[s] : calls[s][i].op = "os.MkdirTemp"})

\* C18: within one request perf, pprof and the BPF profiler are each started
\* at most once and the workspace is created at most once, whatever fails
C18_NoRetry ==
    \A s \in Sessions :
       /\ \A tool \in {"perf", "pprof", "sudo"} : RunCount(s, tool) <= 1
       /\ MkdirCount(s) <= 1

C18_Witness ==
    \E s \in Sessions :
       /\ Completed(s)
       /\ "pprof conversion failed: %v" \in Logged(s)
       /\ RunCount(s, "perf") = 1
       /\ RunCount(s, "pprof") = 1
       /\ MkdirCount(s) = 1
       /\ resp[s].status = StatusInternalServerError

\* session s holds a workspace it has not torn down yet
Live(s) == tempDir[s] # NoDir /\ "os.RemoveAll" \notin Ops(s)

\* path lies inside directory d
Inside(path, d) == HasPrefix(path, d \o "/")

\* the workspace paths a sequence of calls names: arguments of os.Stat,
\* os.Open and os.RemoveAll and of the tools' command lines
PathsNamed(log) ==
    UNION {{log[i].args[k] :
               k \in {j \in DOMAIN log[i].args : HasPrefix(log[i].args[j], "/tmp/")}} :
           i \in {j \in DOMAIN log :
                     log[j].op \in {"os.Stat", "os.Open", "os.RemoveAll", "exec.Run"}}}

\* what a step of session s changes
Footprint(s) == <<pc[s], calls[s], resp[s], cmd[s], defers[s], tempDir[s]>>

\* two live sessions hold different workspaces and a live session's
\* workspace exists
C19_Exclusive ==
    /\ \A s, t \in Sessions :
          (s # t /\ Live(s) /\ Live(t)) => tempDir[s] # tempDir[t]
    /\ \A s \in Sessions :
          Live(s) => tempDir[s] \in dirs

\* a step creates, writes or removes only inside the workspace of the
\* session that takes it, and names no path of a workspace another session
\* holds
C19_OwnWrites ==
    \A s \in Sessions :
       Footprint(s)' # Footprint(s) =>
          /\ \A d \in (dirs \ dirs') \cup (dirs' \ dirs) : d = tempDir'[s]
          /\ \A path \in (DOMAIN files \ DOMAIN files') \cup (DOMAIN files' \ DOMAIN files) :
                Inside(path, tempDir'[s])
          /\ \A path \in DOMAIN files \cap DOMAIN files' :
                files'[path] # files[path] => Inside(path, tempDir'[s])
          /\ \A path \in PathsNamed(SubSeq(calls'[s], Len(calls[s]) + 1, Len(calls'[s]))) :
                /\ path = tempDir'[s] \/ Inside(path, tempDir'[s])
                /\ \A t \in Sessions \ {s} :
                      Live(t) => (path # tempDir[t] /\ ~Inside(path, tempDir[t]))

\* C19: with binary sessions running concurrently in any interleaving, no
\* two live sessions hold the same workspace, no session reads or writes a
\* path inside another's workspace, and a teardown removes only the
\* workspace of the session that runs it
C19_WorkspaceIsolation == []C19_Exclusive /\ [][C19_OwnWrites]_vars

C19_Witness ==
    \E s, t \in Sessions :
       /\ s # t
       /\ Live(s)
       /\ tempDir[s] \in dirs
       /\ pprofPath(s) \in DOMAIN files
       /\ tempDir[t] # NoDir
       /\ tempDir[t] # tempDir[s]
       /\ "os.RemoveAll" \in Ops(t)
       /\ tempDir[t] \notin dirs

\* the credentials a request must carry when a password is configured
CredentialsMatch(s) ==
    /\ req[s].auth.ok
    /\ req[s].auth.user = "admin"
    /\ req[s].auth.pass = password

\* C20: with a password configured, the wrapped handler runs exactly for
\* requests carrying username admin and the configured password; every
\* other request gets 401 with a WWW-Authenticate header and nothing else
\* happens
C20_AuthGate ==
    \A s \in Sessions :
       (password # "" /\ pc[s] \notin {"idle", "basicAuth"}) =>
          /\ Received(s) <=> CredentialsMatch(s)
          /\ ~CredentialsMatch(s) =>
                /\ resp[s].status = StatusUnauthorized
                /\ resp[s].header["WWW-Authenticate"] # ""
                /\ Ops(s) = {"http.Error"}
                /\ tempDir[s] = NoDir
                /\ cmd[s] = NoCmd

C20_Witness ==
    \E s \in Sessions :
       /\ Completed(s)
       /\ password = "secret"
       /\ req[s].auth = [ok |-> TRUE, user |-> "root", pass |-> "secret"]
       /\ resp[s].status = StatusUnauthorized
       /\ resp[s].header["WWW-Authenticate"] # ""

\* the calls a step adds to the log of session s
NewCalls(s) == SubSeq(calls'[s], Len(calls[s]) + 1, Len(calls'[s]))

\* a step of session s calls op
Calls(s, op) == \E i \in DOMAIN NewCalls(s) : NewCalls(s)[i].op = op

\* a step of session s starts the executable tool
Starts(s, tool) ==
    \E i \in DOMAIN NewCalls(s) :
       NewCalls(s)[i].op = "exec.Run" /\ NewCalls(s)[i].args[1] = tool

\* a step of session s writes bytes of the given origin to the response
Writes(s, src) ==
    \E i \in DOMAIN NewCalls(s) :
       NewCalls(s)[i].op = "w.Write" /\ NewCalls(s)[i].args[1] = src

\* session s has called op with first argument arg
Called(s, op, arg) ==
    \E i \in DOMAIN calls[s] : calls[s][i].op = op /\ calls[s][i].args[1] = arg

\* the file at path exists and has content
NonEmptyFile(path) == path \in DOMAIN files /\ files[path] # ""

\* what must hold when a step of the binary pipeline is taken
C21_Gated ==
    \A s \in Sessions :
       /\ Calls(s, "os.MkdirTemp") =>
             /\ Called(s, "os.Stat", "/proc/" \o req[s].pid)
             /\ req[s].pid \in ProcTable
             /\ Called(s, "exec.LookPath", "perf")
             /\ Called(s, "exec.LookPath", "pprof")
             /\ installed = Tools
             /\ "http.Error" \notin Ops(s)
       /\ Starts(s, "pprof") =>
             /\ "perf" \in Started(s)
             /\ cmd[s] = NoCmd
             /\ "perf record failed: %v" \notin Logged(s)
             /\ Called(s, "os.Stat", perfDataPath(s))
             /\ NonEmptyFile(perfDataPath(s))
             /\ "http.Error" \notin Ops(s)
       /\ (Calls(s, "os.Open") \/ Writes(s, "file")) =>
             /\ "pprof" \in Started(s)
             /\ cmd[s] = NoCmd
             /\ "pprof conversion failed: %v" \notin Logged(s)
             /\ Called(s, "os.Stat", pprofPath(s))
             /\ NonEmptyFile(pprofPath(s))
             /\ "http.Error" \notin Ops(s)

\* C21: the workspace is allocated only after the PID check and the tool
\* check passed; pprof is started only after perf exited zero and left a
\* non-empty output file; the artifact is opened and streamed only after
\* pprof exited zero and left a non-empty output file
C21_StagesGated == [][C21_Gated]_vars

C21_Witness ==
    \E s \in Sessions :
       /\ pc[s] = "copy"
       /\ "os.Open" \in Ops(s)
       /\ {"perf", "pprof"} \subseteq Started(s)
       /\ NonEmptyFile(perfDataPath(s))
       /\ NonEmptyFile(pprofPath(s))
       /\ Len(Body(s)) > 0

\* the spellings of n that the duration parser accepts
Spellings(n) ==
    {sign \o zeros \o Itoa(n) : sign \in {"", "+"}, zeros \in {"", "0", "00"}}

\* the run length and the target on the command line of a profiler
RunLength(args) == IF args[1] = "perf" THEN args[12] ELSE args[8]
Target(args) == IF args[1] = "perf" THEN args[5] ELSE args[4]

\* the positions in the call log where perf or the BPF profiler is started
ProfilerRuns(s) == {i \in Runs(s) : calls[s][i].args[1] \in {"perf", "sudo"}}

\* C22: every started perf or BPF profiler has a run length that is the
\* request's duration, an integer of 1..300, and targets the request's pid,
\* which passed the process-existence check before the start
C22_RunLengthValidated ==
    \A s \in Sessions :
       \A i \in ProfilerRuns(s) :
          LET args == calls[s][i].args
              n == Atoi(RunLength(args))
          IN  /\ ~n.err
              /\ n.val \in 1..MaxSeconds
              /\ RunLength(args) = Itoa(n.val)
              /\ req[s].seconds \in Spellings(n.val)
              /\ Target(args) = req[s].pid
              /\ req[s].pid \in ProcTable
              /\ \E j \in 1..(i - 1) :
                    calls[s][j] = Call("os.Stat", <<"/proc/" \o req[s].pid>>)
              /\ \A j \in 1..(i - 1) : calls[s][j].op # "http.Error"

C22_Witness ==
    \E s \in Sessions :
       /\ Completed(s)
       /\ req[s].seconds = "007"
       /\ req[s].pid = "42"
       /\ \E i \in ProfilerRuns(s) :
             /\ calls[s][i].args[1] = "perf"
             /\ RunLength(calls[s][i].args) = "7"
             /\ Target(calls[s][i].args) = "42"

\* C23: a non-test binary request with valid seconds and a malformed or
\* nonexistent pid gets 400 "Invalid PID" whatever tools are installed and
\* no executable is looked up for it; the tool-unavailable 500 is given only
\* to a pid that passed the existence check
C23_PidCheckBeforeToolCheck ==
    \A s \in Sessions :
       /\ (/\ Received(s)
           /\ req[s].format = "pprof"
           /\ req[s].test # "true"
           /\ req[s].seconds \in ValidSecondsStrings
           /\ req[s].pid # ""
           /\ req[s].pid \notin ProcTable) =>
             /\ "exec.LookPath" \notin Ops(s)
             /\ Completed(s) =>
                   /\ resp[s].status = StatusBadRequest
                   /\ HasPrefix(Body(s), "Invalid PID")
       /\ Contains(Body(s), "Required tools not available") =>
             /\ resp[s].status = StatusInternalServerError
             /\ req[s].pid \in ProcTable
             /\ \E i, j \in DOMAIN calls[s] :
                   /\ i < j
                   /\ calls[s][i] = Call("os.Stat", <<"/proc/" \o req[s].pid>>)
                   /\ calls[s][j].op = "exec.LookPath"
             /\ \A i, j \in DOMAIN calls[s] :
                   (calls[s][i].op = "os.Stat" /\ calls[s][j].op = "exec.LookPath") => i < j

C23_Witness ==
    \E s \in Sessions :
       /\ Completed(s)
       /\ req[s].format = "pprof"
       /\ req[s].test # "true"
       /\ req[s].pid = "999999"
       /\ installed = {}
       /\ resp[s].status = StatusBadRequest
       /\ HasPrefix(Body(s), "Invalid PID")
       /\ "exec.LookPath" \notin Ops(s)

\* the positions in the call log where a failed copy is logged
CopyFailures(s) ==
    {i \in DOMAIN calls[s] :
        calls[s][i] = Call("log.Printf", <<"Failed to stream pprof file: %v">>)}

\* C24: a copy that fails is logged once and not retried; after it nothing
\* is written to the response, which keeps its success headers and the
\* bytes already sent; the artifact file is still closed and the workspace
\* still removed
C24_CopyFailureOnlyLogged ==
    \A s \in Sessions :
       CopyFailures(s) # {} =>
          /\ Cardinality(CopyFailures(s)) = 1
          /\ \A i \in CopyFailures(s) :
                \A j \in DOMAIN calls[s] :
                   j > i => calls[s][j].op \in {"pprofFile.Close", "os.RemoveAll"}
          /\ "http.Error" \notin Ops(s)
          /\ resp[s].status \in {0, StatusOK}
          /\ resp[s].header["Content-Type"] = "application/octet-stream"
          /\ BodySources(resp[s].body) \subseteq {"file"}
          /\ Len(Body(s)) < Len(pprofFile[s].data)
          /\ HasPrefix(pprofFile[s].data, Body(s))
          /\ Completed(s) =>
                /\ resp[s].status = StatusOK
                /\ ~pprofFile[s].open
                /\ Called(s, "pprofFile.Close", pprofPath(s))
                /\ Called(s, "os.RemoveAll", tempDir[s])
                /\ tempDir[s] \notin dirs
                /\ \A path \in DOMAIN files : ~Inside(path, tempDir[s])

C24_Witness ==
    \E s \in Sessions :
       /\ Completed(s)
       /\ CopyFailures(s) # {}
       /\ Len(Body(s)) = 1
       /\ Len(pprofFile[s].data) = 2
       /\ tempDir[s] # NoDir
       /\ tempDir[s] \notin dirs

\* the removals session s has made or has yet to make
Removals(s) ==
    {calls[s][i].args[1] : i \in {j \in DOMAIN calls[s] : calls[s][j].op = "os.RemoveAll"}}
    \cup {defers[s][i].args[1] :
             i \in {j \in DOMAIN defers[s] : defers[s][j].op = "os.RemoveAll"}}

\* C25: when os.MkdirTemp fails the request ends with 500, no subprocess is
\* started and no removal is made or registered; a removal is only ever
\* registered for the directory the session acquired
C25_NoTeardownWithoutWorkspace ==
    \A s \in Sessions :
       /\ Called(s, "os.MkdirTemp", NoDir) =>
             /\ resp[s].status = StatusInternalServerError
             /\ Contains(Body(s), "Failed to create temp directory")
             /\ "exec.Run" \notin Ops(s)
             /\ cmd[s] = NoCmd
             /\ tempDir[s] = NoDir
             /\ Removals(s) = {}
             /\ defers[s] = <<>>
             /\ MkdirCount(s) = 1
       /\ \A d \in Removals(s) :
             /\ d # NoDir
             /\ d = tempDir[s]
             /\ Called(s, "os.MkdirTemp", d)

C25_Witness ==
    \E s \in Sessions :
       /\ Completed(s)
       /\ Called(s, "os.MkdirTemp", NoDir)
       /\ resp[s].status = StatusInternalServerError
       /\ Called(s, "exec.LookPath", "pprof")
       /\ "os.RemoveAll" \notin Ops(s)

\* session s has a subprocess running
Running(s) == cmd[s] # NoCmd

\* while its subprocess runs a session is at the wait and has written
\* nothing
C26_Waiting ==
    \A s \in Sessions :
       Running(s) =>
          /\ pc[s] \in {"perfWait", "pprofWait", "bccWait"}
          /\ resp[s] = NewResponse
          /\ "http.Error" \notin Ops(s)

\* the only step of a session with a running subprocess is the exit of
\* that subprocess, after which the handler goes on
C26_OnlyExit ==
    \A s \in Sessions :
       (Running(s) /\ Footprint(s)' # Footprint(s)) =>
          /\ cmd'[s] = NoCmd
          /\ pc'[s] \in {"statPerfData", "statPprof", "return"}
          /\ pc'[s] = "return" => resp'[s].status # 0

\* C26: a session with a running subprocess only waits for its exit and
\* writes no response meanwhile; when every started subprocess exits, every
\* request is answered and every acquired workspace is released
C26_WaitsThenAnswers ==
    /\ []C26_Waiting
    /\ [][C26_OnlyExit]_vars
    /\ \A s \in Sessions :
          /\ (pc[s] # "idle") ~> (Completed(s) /\ resp[s].status # 0)
          /\ (tempDir[s] # NoDir) ~> (tempDir[s] \notin dirs /\ Called(s, "os.RemoveAll", tempDir[s]))

C26_Witness ==
    \E s \in Sessions :
       /\ Completed(s)
       /\ {"perf", "pprof"} \subseteq Started(s)
       /\ "pprof conversion failed: %v" \in Logged(s)
       /\ resp[s].status # 0
       /\ tempDir[s] # NoDir
       /\ tempDir[s] \notin dirs

\* session s serves a folded request
Folded(s) == Received(s) /\ req[s].format = "folded"

\* a folded request holds no workspace, has not touched a file of one and
\* has not looked up perf or pprof
C27_NoWorkspace ==
    \A s \in Sessions :
       Folded(s) =>
          /\ tempDir[s] = NoDir
          /\ defers[s] = <<>>
          /\ ~pprofFile[s].open
          /\ Ops(s) \cap {"os.MkdirTemp", "os.Open", "os.RemoveAll",
                          "pprofFile.Close", "exec.LookPath"} = {}
          /\ PathsNamed(calls[s]) = {}
          /\ Started(s) \subseteq {"sudo"}
          /\ ~Contains(Body(s), "tool not found")

\* a step of a folded request leaves the directories and files as they are
C27_FilesUnchanged ==
    \A s \in Sessions :
       (Folded(s) /\ Footprint(s)' # Footprint(s)) => UNCHANGED <<dirs, files>>

\* C27: a folded request never allocates a workspace, never creates or
\* reads an intermediate file and never checks for perf or pprof; the
\* filesystem is left unchanged and a missing tool does not make it fail
C27_FoldedTouchesNoFiles == []C27_NoWorkspace /\ [][C27_FilesUnchanged]_vars

C27_Witness ==
    \E s \in Sessions :
       /\ Completed(s)
       /\ Folded(s)
       /\ req[s].test # "true"
       /\ installed = {}
       /\ "sudo" \in Started(s)
       /\ resp[s].status = StatusOK
       /\ Body(s) = "main;aeMain;aeProcessEvents 12\n"
       /\ dirs = {}

====
